---- MODULE Spec2Model ----
(***************************************************************************)
(* Model of fastnoise2-sys/build/main.rs: the build script that obtains    *)
(* the FastNoise2 static library and its Rust bindings.                    *)
(*                                                                         *)
(* One behaviour of Spec is one run of the build script.  The process      *)
(* environment (env) is fixed for the run; the file system (fs) is what    *)
(* earlier runs or the user left behind and is changed by the run.         *)
(* External tools (curl, wget, tar, cmake, bindgen) and fallible file      *)
(* operations pick their outcome nondeterministically.  SpecRebuild lets   *)
(* cargo run the script again on the file system the last run left, and    *)
(* SpecLink runs it on every target the link table distinguishes.          *)
(***************************************************************************)
EXTENDS Naturals, Sequences, FiniteSets, TLC

VARIABLES
  env,    \* the process environment: variable name -> value or Unset
  fs,     \* the file system the script reads and writes
  fs0,    \* the file system as it was when the run started (history)
  pc,     \* the position of the run
  arg,    \* source_path argument of the pending generate_bindings call
  ret,    \* where main continues when the function it called returns
  calls,  \* functions entered and external tools invoked so far, in order
  out,    \* cargo directives printed so far, in order
  panic,  \* message of the fatal abort, "" while none
  hist    \* what the earlier runs in the same OUT_DIR did (history)

vars == <<env, fs, fs0, pc, arg, ret, calls, out, panic, hist>>

----------------------------------------------------------------------------
(* Bounds *)

\* number of header files in the source tree's Utility directory
NumHeaders == 2

Headers == 1..NumHeaders

----------------------------------------------------------------------------
(* Constants of the build script *)

SOURCE_DIR_KEY == "FASTNOISE2_SOURCE_DIR"
LIB_DIR_KEY == "FASTNOISE2_LIB_DIR"
BINDINGS_CACHE_KEY == "FASTNOISE2_BINDINGS_DIR"
LIB_NAME == "FastNoise"
HEADER_NAME == "FastNoise_C.h"

WASM_PREBUILT_REPO == "api-haus/fastnoise2-rs"
WASM_PREBUILT_TAG == "wasm-prebuilt-v1"

WasmPrebuiltUrl ==
  "https://github.com/" \o WASM_PREBUILT_REPO \o "/releases/download/"
    \o WASM_PREBUILT_TAG \o "/fastnoise2-wasm-prebuilt.tar.gz"

\* the values cargo always supplies
OUT_DIR == "/out"
CARGO_MANIFEST_DIR == "/crate"

----------------------------------------------------------------------------
(* The process environment *)

Unset == "<unset>"

\* the (operating system, ABI) pairs of the runs explored
TargetPairs ==
  { <<Unset, "gnu">>, <<"linux", Unset>>, <<"linux", "gnu">>, <<"windows", "msvc">> }

\* the values each variable may take in a run
EnvValues ==
  [ DOCS_RS : {Unset, "1"},
    CARGO_CFG_TARGET_ARCH : {Unset, "wasm32", "x86_64"},
    CARGO_CFG_TARGET_OS : {p[1] : p \in TargetPairs},
    CARGO_CFG_TARGET_ENV : {p[2] : p \in TargetPairs},
    CARGO_FEATURE_BUILD_FROM_SOURCE : {Unset, "1"},
    FASTNOISE2_LIB_DIR : {Unset, "/opt/lib"},
    FASTNOISE2_SOURCE_DIR : {Unset, "/src/FastNoise2"},
    FASTNOISE2_BINDINGS_DIR : {Unset, "/cache"},
    FASTNOISE2_BUILD_WASM_FROM_SOURCE : {Unset, "1"},
    EMSDK : {Unset, "/emsdk"} ]

EnvDomain ==
  { e \in EnvValues : <<e.CARGO_CFG_TARGET_OS, e.CARGO_CFG_TARGET_ENV>> \in TargetPairs }

\* env::var(key).is_ok()
is_ok(key) == env[key] # Unset

\* a read that takes the empty default for a variable that is not set
unwrap_or_default_never_fails(key) == FALSE

\* env::var(key).unwrap() panics: the variable is not set
unwrap_fails(key) == ~is_ok(key)

----------------------------------------------------------------------------
(* The file system *)

NoFile == "<none>"

\* OUT_DIR/wasm-prebuilt
PrebuiltDir == OUT_DIR \o "/wasm-prebuilt"

FreshFs ==
  [ outBindings |-> NoFile,       \* OUT_DIR/bindings.rs
    prebuiltDir |-> FALSE,        \* OUT_DIR/wasm-prebuilt exists
    tarball |-> FALSE,            \* OUT_DIR/fastnoise2-wasm-prebuilt.tar.gz
    prebuiltLib |-> FALSE,        \* OUT_DIR/wasm-prebuilt/libFastNoise.a
    prebuiltBindings |-> NoFile,  \* OUT_DIR/wasm-prebuilt/bindings.rs
    cacheBindings |-> NoFile,     \* $FASTNOISE2_BINDINGS_DIR/bindings.rs
    installed |-> FALSE,          \* cmake's install tree under OUT_DIR
    srcUtility |-> FALSE,         \* source_path/include/FastNoise/Utility exists
    dstUtility |-> FALSE,         \* OUT_DIR/include/FastNoise/Utility exists
    dstFiles |-> {} ]             \* its files, as <<header, content>>

----------------------------------------------------------------------------
(* Helpers *)

Range(s) == {s[i] : i \in 1..Len(s)}

\* an entry of calls: a function of the script or an external tool, with its argument
Call(name, a) == [fn |-> name, args |-> a]

Invoked(name) == \E i \in 1..Len(calls) : calls[i].fn = name

Printed(line) == line \in Range(out)

\* println!("cargo:warning=...")
Warning(text) == "cargo:warning=" \o text

\* println!("cargo:rustc-link-search=native={}", path)
LinkSearch(path) == "cargo:rustc-link-search=native=" \o path

\* println!("cargo:rustc-link-lib=static={LIB_NAME}")
LinkStatic == "cargo:rustc-link-lib=static=" \o LIB_NAME

default_source_path == CARGO_MANIFEST_DIR \o "/build/FastNoise2"

\* env::var(SOURCE_DIR_KEY).map(PathBuf::from).unwrap_or_else(|_| default_source_path())
source_path == IF is_ok(SOURCE_DIR_KEY) THEN env[SOURCE_DIR_KEY] ELSE default_source_path

\* a panic (unwrap, expect) ends the run
Abort(msg) ==
  /\ pc' = "aborted"
  /\ panic' = msg

----------------------------------------------------------------------------
(* The state a run starts in *)

\* no earlier run in this OUT_DIR
NoHistory == [fetched |-> FALSE, generated |-> FALSE]

\* what an earlier run or the user may have left on disk
InitFs ==
  { [ FreshFs EXCEPT
        !.outBindings = ob,
        !.prebuiltDir = pb[1], !.tarball = pb[1],
        !.prebuiltLib = pb[1], !.prebuiltBindings = pb[2],
        !.cacheBindings = cb,
        !.srcUtility = su,
        !.installed = it[1], !.dstUtility = it[2],
        !.dstFiles = IF it[2] THEN {<<h, "old">> : h \in Headers} ELSE {} ] :
      ob \in {NoFile, "bindgen"},
      pb \in {<<FALSE, NoFile>>, <<TRUE, NoFile>>, <<TRUE, "bundle">>},
      cb \in {NoFile, "user"},
      su \in BOOLEAN,
      it \in {<<FALSE, FALSE>>, <<TRUE, FALSE>>, <<TRUE, TRUE>>} }

Init ==
  /\ env \in EnvDomain
  /\ fs \in InitFs
  /\ fs0 = fs
  /\ pc = "main"
  /\ arg = ""
  /\ ret = ""
  /\ calls = <<>>
  /\ out = <<>>
  /\ panic = ""
  /\ hist = NoHistory

----------------------------------------------------------------------------
(* fn main() *)

\* a main that lacks the return after build_wasm()
AfterBuildWasm_fallthrough == "emit_std_cpp_link"

\* build_wasm(); return;  -- where main continues after build_wasm
AfterBuildWasm == "done"

\* a main that looks at DOCS_RS only after the WASM dispatch
docs_rs_detected_after_wasm ==
  is_ok("DOCS_RS") /\ env.CARGO_CFG_TARGET_ARCH # "wasm32"

\* if env::var("DOCS_RS").is_ok()
docs_rs_detected == is_ok("DOCS_RS")

\* a precompiled branch that reads the header from the source override
precompiled_header_source_override == source_path

\* the precompiled branch: generate_bindings(default_source_path())
precompiled_header_source == default_source_path

\* a selector that looks at the library directory before the force flag
NativeStrategy_prefers_lib_dir ==
  IF is_ok(LIB_DIR_KEY) THEN "precompiled"
  ELSE IF is_ok("CARGO_FEATURE_BUILD_FROM_SOURCE") THEN "forced_source"
  ELSE "fallback_source"

\* a selector that never looks at the library directory
NativeStrategy_ignores_lib_dir ==
  IF is_ok("CARGO_FEATURE_BUILD_FROM_SOURCE") THEN "forced_source" ELSE "fallback_source"

\* the strategy of a native build: the if / else if / else on the force flag and
\* the library directory
NativeStrategy ==
  IF is_ok("CARGO_FEATURE_BUILD_FROM_SOURCE") THEN "forced_source"
  ELSE IF is_ok(LIB_DIR_KEY) THEN "precompiled"
  ELSE "fallback_source"

main ==
  /\ pc = "main"
  /\ IF docs_rs_detected
     THEN /\ out' = out \o <<Warning("docs.rs compilation detected")>>
          /\ pc' = "generate_bindings"
          /\ arg' = default_source_path
          /\ ret' = "done"
          /\ UNCHANGED panic
     ELSE LET rerun == <<"cargo:rerun-if-env-changed=" \o SOURCE_DIR_KEY,
                         "cargo:rerun-if-env-changed=" \o LIB_DIR_KEY,
                         "cargo:rerun-if-env-changed=" \o BINDINGS_CACHE_KEY,
                         "cargo:rerun-if-env-changed=EMSDK">>
          IN IF unwrap_fails("CARGO_CFG_TARGET_ARCH")
             THEN /\ Abort("unwrap CARGO_CFG_TARGET_ARCH")
                  /\ out' = out \o rerun
                  /\ UNCHANGED <<arg, ret>>
             ELSE IF env.CARGO_CFG_TARGET_ARCH = "wasm32"
             THEN \* build_wasm(); return
                  /\ pc' = "try_download_wasm_prebuilt"
                  /\ out' = out \o rerun
                  /\ ret' = AfterBuildWasm
                  /\ UNCHANGED <<arg, panic>>
             ELSE IF NativeStrategy = "forced_source"
             THEN /\ pc' = "build_from_source"
                  /\ out' = out \o rerun
                            \o <<Warning("feature 'build-from-source' is enabled")>>
                  /\ ret' = "emit_std_cpp_link"
                  /\ UNCHANGED <<arg, panic>>
             ELSE IF NativeStrategy = "precompiled"
             THEN /\ pc' = "generate_bindings"
                  /\ out' = out \o rerun
                            \o <<Warning("using precompiled library"),
                                 LinkSearch(env[LIB_DIR_KEY]),
                                 LinkStatic>>
                  /\ arg' = precompiled_header_source
                  /\ ret' = "emit_std_cpp_link"
                  /\ UNCHANGED panic
             ELSE /\ pc' = "build_from_source"
                  /\ out' = out \o rerun
                            \o <<Warning(LIB_DIR_KEY \o " is not set")>>
                  /\ ret' = "emit_std_cpp_link"
                  /\ UNCHANGED <<arg, panic>>
  /\ calls' = IF ~docs_rs_detected /\ env.CARGO_CFG_TARGET_ARCH = "wasm32"
              THEN Append(calls, Call("build_wasm", ""))
              ELSE calls
  /\ UNCHANGED <<hist, env, fs, fs0>>

----------------------------------------------------------------------------
(* fn try_download_wasm_prebuilt() -> Option<PathBuf> *)

\* a fetcher whose failures end the run
ReturnNone_fatal(warnings) ==
  /\ pc' = "aborted"
  /\ out' = out \o warnings

\* return None: build_wasm falls back to building from source
ReturnNone(warnings) ==
  /\ pc' = "build_wasm_from_source"
  /\ out' = out \o warnings \o <<Warning("Prebuilt not available")>>

\* return Some(prebuilt_dir): build_wasm uses the prebuilt binaries
ReturnSome(warnings) ==
  /\ pc' = "build_wasm"
  /\ out' = out \o warnings

\* a fetcher that checks the cache before the override
SkipPrebuilt_after_cache_check ==
  is_ok("FASTNOISE2_BUILD_WASM_FROM_SOURCE") /\ ~fs.prebuiltLib

\* "Skip if user explicitly wants to build from source"
SkipPrebuilt == is_ok("FASTNOISE2_BUILD_WASM_FROM_SOURCE")

\* a fetcher that never finds the library it downloaded earlier
AlreadyDownloaded_never == FALSE

\* "Already downloaded?": lib_file.exists()
AlreadyDownloaded == fs.prebuiltLib

\* the override, the cache check and the creation of the directory
try_download_wasm_prebuilt ==
  /\ pc = "try_download_wasm_prebuilt"
  /\ IF SkipPrebuilt
     THEN /\ ReturnNone(<<Warning("skipping prebuilt download")>>)
          /\ UNCHANGED fs
     ELSE IF AlreadyDownloaded
     THEN /\ ReturnSome(<<Warning("Using cached WASM prebuilt")>>)
          /\ UNCHANGED fs
     ELSE \/ \* create_dir_all succeeds
             /\ fs' = [fs EXCEPT !.prebuiltDir = TRUE]
             /\ pc' = "curl"
             /\ out' = out \o <<Warning("Downloading WASM prebuilt")>>
          \/ \* create_dir_all fails: .ok()? returns None
             /\ ~fs.prebuiltDir
             /\ ReturnNone(<<Warning("Downloading WASM prebuilt")>>)
             /\ UNCHANGED fs
  /\ calls' = Append(calls, Call("try_download_wasm_prebuilt", ""))
  /\ UNCHANGED <<hist, env, fs0, arg, ret, panic>>

\* .or(...): a fallback that is run whatever the first tool returned
or_else_wget_always(curl_ok) == TRUE

\* .or_else(|| ...): the closure runs only when curl did not yield Some
or_else_wget(curl_ok) == ~curl_ok

\* Command::new("curl"): curl_ok is "started and exited with code zero"
download_curl ==
  /\ pc = "curl"
  /\ calls' = Append(calls, Call("curl", WasmPrebuiltUrl))
  /\ \E curl_ok \in BOOLEAN :
       /\ fs' = [fs EXCEPT !.tarball = @ \/ curl_ok]
       /\ pc' = IF or_else_wget(curl_ok) THEN "wget" ELSE "tar"
  /\ UNCHANGED <<hist, env, fs0, arg, ret, out, panic>>

\* .or_else(|| Command::new("wget") ...) and the check of download_result
download_wget ==
  /\ pc = "wget"
  /\ calls' = Append(calls, Call("wget", WasmPrebuiltUrl))
  /\ \/ /\ fs' = [fs EXCEPT !.tarball = TRUE]
        /\ pc' = "tar"
        /\ UNCHANGED out
     \/ /\ ReturnNone(<<Warning("Failed to download WASM prebuilt")>>)
        /\ UNCHANGED fs
  /\ UNCHANGED <<hist, env, fs0, arg, ret, panic>>

\* Command::new("tar"), then the check that the library was extracted
extract_tarball ==
  /\ pc = "tar"
  /\ calls' = Append(calls, Call("tar", PrebuiltDir))
  /\ \E success \in BOOLEAN, lib \in BOOLEAN, bindings \in BOOLEAN :
       \* tar may have written part of the archive before it fails
       /\ fs' = [fs EXCEPT
                   !.prebuiltLib = @ \/ lib,
                   !.prebuiltBindings = IF bindings THEN "bundle" ELSE @]
       /\ IF ~success
          THEN ReturnNone(<<Warning("Failed to extract WASM prebuilt tarball")>>)
          ELSE IF ~fs'.prebuiltLib
          THEN ReturnNone(<<Warning("WASM prebuilt archive missing libFastNoise.a")>>)
          ELSE ReturnSome(<<Warning("Successfully downloaded WASM prebuilt")>>)
  /\ UNCHANGED <<hist, env, fs0, arg, ret, panic>>

----------------------------------------------------------------------------
(* fn build_wasm(): the branch that uses the prebuilt binaries *)

\* a branch that lacks its return and falls through to the source build
PrebuiltReturn_fallthrough == "build_wasm_from_source"

\* the return that ends the branch: control goes back to main
PrebuiltReturn == ret

build_wasm ==
  /\ pc = "build_wasm"
  /\ out' = out \o <<Warning("Using prebuilt WASM binaries from GitHub releases"),
                     LinkSearch(PrebuiltDir),
                     LinkStatic>>
  /\ IF fs.prebuiltBindings # NoFile
     THEN \/ \* std::fs::copy succeeds
             /\ fs' = [fs EXCEPT !.outBindings = fs.prebuiltBindings]
             /\ pc' = PrebuiltReturn
             /\ UNCHANGED panic
          \/ /\ Abort("Failed to copy prebuilt bindings")
             /\ UNCHANGED fs
     ELSE /\ pc' = PrebuiltReturn
          /\ UNCHANGED <<fs, panic>>
  /\ UNCHANGED <<hist, env, fs0, arg, ret, calls>>

----------------------------------------------------------------------------
(* The header repair of build_from_source and build_wasm_from_source *)

\* a repair that does not look at the destination
NeedsCopy_ignores_destination(f) == f.srcUtility

\* if src_utility.exists() && !dst_utility.exists()
NeedsCopy(f) == f.srcUtility /\ ~f.dstUtility

\* std::fs::copy of the headers `copied` from the source tree `src`: a file of the
\* same name is replaced
CopyInto(files, copied, src) ==
  {e \in files : e[1] \notin copied} \cup {<<h, src>> : h \in copied}

\* the tree a run of the repair that does not fail leaves behind
Repaired(f, src) ==
  IF NeedsCopy(f)
  THEN [f EXCEPT !.dstUtility = TRUE, !.dstFiles = CopyInto(@, Headers, src)]
  ELSE f

\* the repair, then generate_bindings(out_path)
CopyUtilityHeaders ==
  /\ \/ \* nothing to copy, or every copy succeeds
        /\ fs' = Repaired(fs, source_path)
        /\ pc' = "generate_bindings"
        /\ arg' = OUT_DIR
        /\ UNCHANGED panic
     \/ \* create_dir_all fails
        /\ NeedsCopy(fs)
        /\ Abort("Failed to create Utility dir")
        /\ UNCHANGED <<fs, arg>>
     \/ \* read_dir or a copy fails after some headers were copied
        /\ NeedsCopy(fs)
        /\ \E copied \in SUBSET Headers :
             /\ copied # Headers
             /\ fs' = [fs EXCEPT !.dstUtility = TRUE,
                                 !.dstFiles = CopyInto(@, copied, source_path)]
        /\ Abort("Failed to copy header")
        /\ UNCHANGED arg
  /\ UNCHANGED <<hist, env, fs0, ret, calls, out>>

----------------------------------------------------------------------------
(* fn build_wasm_from_source() *)

EmscriptenToolchain(emsdk) ==
  emsdk \o "/upstream/emscripten/cmake/Modules/Platform/Emscripten.cmake"

\* a builder that goes on without the SDK root
MissingEmsdk_ignored == FALSE

\* env::var("EMSDK").expect(...) fails
MissingEmsdk == ~is_ok("EMSDK")

\* up to the link directives printed after config.build()
build_wasm_from_source ==
  /\ pc = "build_wasm_from_source"
  /\ LET entry == Append(calls, Call("build_wasm_from_source", ""))
         printed == out \o <<Warning("Building FastNoise2 for WASM with SIMD128 support")>>
                        \o (IF is_ok("EMSDK")
                            THEN <<Warning("EMSDK path: " \o env.EMSDK)>> ELSE <<>>)
                        \o <<"cargo:rerun-if-changed=" \o source_path \o "/include/FastNoise">>
     IN IF MissingEmsdk
        THEN /\ Abort("EMSDK environment variable required for WASM builds")
             /\ calls' = entry
             /\ out' = printed
             /\ UNCHANGED fs
        ELSE /\ calls' = Append(entry,
                           Call("cmake", <<source_path, EmscriptenToolchain(env.EMSDK),
                                           "-msimd128">>))
             /\ \/ \* config.build() returns
                   /\ fs' = [fs EXCEPT !.installed = TRUE]
                   /\ out' = printed \o <<LinkSearch(OUT_DIR \o "/lib"),
                                          LinkSearch(OUT_DIR \o "/lib64"),
                                          LinkStatic>>
                   /\ pc' = "wasm_utility"
                   /\ UNCHANGED panic
                \/ \* config.build() panics
                   /\ Abort("cmake build failed")
                   /\ out' = printed
                   /\ UNCHANGED fs
  /\ UNCHANGED <<hist, env, fs0, arg, ret>>

\* "Copy Utility headers that cmake doesn't install", then generate_bindings(out_path)
build_wasm_from_source_utility ==
  /\ pc = "wasm_utility"
  /\ CopyUtilityHeaders

----------------------------------------------------------------------------
(* fn build_from_source() *)

\* match (target_os.as_str(), target_env.as_str())
cmake_cxx_flags_release(target_os, target_env) ==
  IF target_os = "windows" /\ target_env = "msvc"
  THEN "/MD /O2 /Ob2 /DNDEBUG"
  ELSE "-O3 -DNDEBUG"

\* up to the link directives printed after config.build()
build_from_source ==
  /\ pc = "build_from_source"
  /\ LET entry == Append(calls, Call("build_from_source", ""))
         printed == out \o <<Warning("building from source files located in '"
                                       \o source_path \o "'"),
                             "cargo:rerun-if-changed=" \o source_path \o "/include/FastNoise">>
         flags == cmake_cxx_flags_release(env.CARGO_CFG_TARGET_OS, env.CARGO_CFG_TARGET_ENV)
     IN IF unwrap_fails("CARGO_CFG_TARGET_OS")
        THEN /\ Abort("unwrap CARGO_CFG_TARGET_OS")
             /\ calls' = entry
             /\ out' = printed
             /\ UNCHANGED fs
        ELSE IF unwrap_fails("CARGO_CFG_TARGET_ENV")
        THEN /\ Abort("unwrap CARGO_CFG_TARGET_ENV")
             /\ calls' = entry
             /\ out' = printed
             /\ UNCHANGED fs
        ELSE /\ calls' = Append(entry, Call("cmake", <<source_path, "", flags>>))
             /\ \/ /\ fs' = [fs EXCEPT !.installed = TRUE]
                   /\ out' = printed \o <<Warning("CMAKE_CXX_FLAGS_RELEASE='" \o flags \o "'"),
                                          LinkSearch(OUT_DIR \o "/lib"),
                                          LinkSearch(OUT_DIR \o "/lib64"),
                                          LinkStatic>>
                   /\ pc' = "utility"
                   /\ UNCHANGED panic
                \/ /\ Abort("cmake build failed")
                   /\ out' = printed \o <<Warning("CMAKE_CXX_FLAGS_RELEASE='" \o flags \o "'")>>
                   /\ UNCHANGED fs
  /\ UNCHANGED <<hist, env, fs0, arg, ret>>

\* "Copy Utility headers that cmake doesn't install", then generate_bindings(out_path)
build_from_source_utility ==
  /\ pc = "utility"
  /\ CopyUtilityHeaders

----------------------------------------------------------------------------
(* fn generate_bindings(source_path: PathBuf) *)

\* include_path.join(HEADER_NAME)
header_path(src) == src \o "/include/FastNoise/" \o HEADER_NAME

\* a generator that takes the vendored file on every target
vendored_applies_any_target(target_arch) == TRUE

\* if target_arch == "wasm32": only then is the vendored file looked for
vendored_applies(target_arch) == target_arch = "wasm32"

\* a generator that never finds the cached file
CachedBindingsExist_never == FALSE

\* "Check for cached bindings": the override is set and the file exists
CachedBindingsExist == is_ok(BINDINGS_CACHE_KEY) /\ fs.cacheBindings # NoFile

\* return to the caller
Return ==
  /\ pc' = ret
  /\ UNCHANGED panic

generate_bindings ==
  /\ pc = "generate_bindings"
  /\ LET entry == Append(calls, Call("generate_bindings", arg))
         \* env::var("CARGO_CFG_TARGET_ARCH").unwrap_or_default()
         target_arch == IF is_ok("CARGO_CFG_TARGET_ARCH")
                        THEN env.CARGO_CFG_TARGET_ARCH ELSE ""
     IN \/ \* vendored bindings exist (WASM only): copy them
           /\ vendored_applies(target_arch)
           /\ out' = out \o <<Warning("using vendored bindings for WASM")>>
           /\ calls' = entry
           /\ \/ /\ fs' = [fs EXCEPT !.outBindings = "vendored"]
                 /\ Return
              \/ /\ Abort("Failed to copy vendored bindings")
                 /\ UNCHANGED fs
        \/ \* no vendored bindings to use
           /\ LET printed == IF vendored_applies(target_arch)
                             THEN out \o <<Warning("vendored bindings not found")>>
                             ELSE out
              IN IF CachedBindingsExist
                 THEN /\ out' = printed \o <<Warning("using cached bindings")>>
                      /\ calls' = entry
                      /\ \/ /\ fs' = [fs EXCEPT !.outBindings = fs.cacheBindings]
                            /\ Return
                         \/ /\ Abort("Failed to copy cached bindings")
                            /\ UNCHANGED fs
                 ELSE /\ calls' = Append(entry, Call("bindgen", header_path(arg)))
                      /\ \/ \* generated and written
                            /\ \E cached \in BOOLEAN :
                                 \* the copy into the cache may fail: .ok()
                                 fs' = [fs EXCEPT
                                          !.outBindings = "bindgen",
                                          !.cacheBindings =
                                            IF is_ok(BINDINGS_CACHE_KEY) /\ cached
                                            THEN "bindgen" ELSE @]
                            /\ out' = printed
                                 \o <<Warning("generating Rust bindings for FastNoise2"),
                                      Warning("bindings generated successfully")>>
                                 \o (IF is_ok(BINDINGS_CACHE_KEY)
                                     THEN <<Warning("bindings cached")>> ELSE <<>>)
                            /\ Return
                         \/ /\ Abort("Unable to generate bindings")
                            /\ out' = printed
                                 \o <<Warning("generating Rust bindings for FastNoise2")>>
                            /\ UNCHANGED fs
                         \/ /\ Abort("Couldn't write bindings!")
                            /\ out' = printed
                                 \o <<Warning("generating Rust bindings for FastNoise2")>>
                            /\ UNCHANGED fs
  /\ UNCHANGED <<hist, env, fs0, arg, ret>>

----------------------------------------------------------------------------
(* fn emit_std_cpp_link() *)

\* an emitter whose c++ arm takes every BSD
std_cpp_link_bsd_family(target_os, target_env) ==
  IF target_os = "linux" \/ (target_os = "windows" /\ target_env = "gnu")
  THEN <<"cargo:rustc-link-lib=dylib=stdc++">>
  ELSE IF target_os \in {"macos", "freebsd", "openbsd", "netbsd"}
  THEN <<"cargo:rustc-link-lib=dylib=c++">>
  ELSE IF target_os = "windows" /\ target_env = "msvc"
  THEN <<>>
  ELSE <<Warning("Unknown target for C++ stdlib linking")>>

\* match (target_os.as_str(), target_env.as_str())
std_cpp_link(target_os, target_env) ==
  IF target_os = "linux" \/ (target_os = "windows" /\ target_env = "gnu")
  THEN <<"cargo:rustc-link-lib=dylib=stdc++">>
  ELSE IF target_os \in {"macos", "freebsd"}
  THEN <<"cargo:rustc-link-lib=dylib=c++">>
  ELSE IF target_os = "windows" /\ target_env = "msvc"
  THEN <<>>
  ELSE <<Warning("Unknown target for C++ stdlib linking")>>

emit_std_cpp_link ==
  /\ pc = "emit_std_cpp_link"
  /\ calls' = Append(calls, Call("emit_std_cpp_link", ""))
  /\ IF unwrap_fails("CARGO_CFG_TARGET_OS")
     THEN /\ Abort("unwrap CARGO_CFG_TARGET_OS")
          /\ UNCHANGED out
     ELSE IF unwrap_fails("CARGO_CFG_TARGET_ENV")
     THEN /\ Abort("unwrap CARGO_CFG_TARGET_ENV")
          /\ UNCHANGED out
     ELSE /\ out' = out \o std_cpp_link(env.CARGO_CFG_TARGET_OS, env.CARGO_CFG_TARGET_ENV)
          /\ pc' = "done"
          /\ UNCHANGED panic
  /\ UNCHANGED <<hist, env, fs, fs0, arg, ret>>

----------------------------------------------------------------------------
(* One run of the build script *)

Next ==
  \/ main
  \/ try_download_wasm_prebuilt
  \/ download_curl
  \/ download_wget
  \/ extract_tarball
  \/ build_wasm
  \/ build_wasm_from_source
  \/ build_wasm_from_source_utility
  \/ build_from_source
  \/ build_from_source_utility
  \/ generate_bindings
  \/ emit_std_cpp_link

Spec == Init /\ [][Next]_vars

----------------------------------------------------------------------------
(* The same script on every target emit_std_cpp_link distinguishes *)

\* CARGO_CFG_TARGET_OS and CARGO_CFG_TARGET_ENV of the native targets explored
LinkOsValues == {"linux", "windows", "macos", "freebsd", "openbsd", "netbsd", "other"}
LinkAbiValues == {"gnu", "musl", "msvc", ""}

\* native builds that link the precompiled library, on a clean OUT_DIR
InitLink ==
  /\ env \in { [e EXCEPT !.CARGO_CFG_TARGET_OS = os, !.CARGO_CFG_TARGET_ENV = abi] :
                 e \in { d \in EnvDomain :
                           /\ d.DOCS_RS = Unset
                           /\ d.CARGO_CFG_TARGET_ARCH = "x86_64"
                           /\ d.CARGO_FEATURE_BUILD_FROM_SOURCE = Unset
                           /\ d.FASTNOISE2_LIB_DIR # Unset
                           /\ d.FASTNOISE2_SOURCE_DIR = Unset
                           /\ d.FASTNOISE2_BUILD_WASM_FROM_SOURCE = Unset
                           /\ d.EMSDK = Unset },
                 os \in LinkOsValues, abi \in LinkAbiValues }
  /\ fs \in { [FreshFs EXCEPT !.cacheBindings = cb] : cb \in {NoFile, "user"} }
  /\ fs0 = fs
  /\ pc = "main"
  /\ arg = ""
  /\ ret = ""
  /\ calls = <<>>
  /\ out = <<>>
  /\ panic = ""
  /\ hist = NoHistory

\* the steps of such a build
NextLink ==
  \/ main
  \/ generate_bindings
  \/ emit_std_cpp_link

SpecLink == InitLink /\ [][NextLink]_vars

----------------------------------------------------------------------------
(* Builds that follow one another in the same OUT_DIR *)

\* the environments of the builds explored: a Linux host with the Emscripten SDK,
\* the vendored source, the build-from-source feature off
RebuildEnvs ==
  { e \in EnvDomain :
      /\ e.CARGO_CFG_TARGET_ARCH # Unset
      /\ e.CARGO_CFG_TARGET_OS = "linux"
      /\ e.CARGO_CFG_TARGET_ENV = "gnu"
      /\ e.CARGO_FEATURE_BUILD_FROM_SOURCE = Unset
      /\ e.FASTNOISE2_SOURCE_DIR = Unset
      /\ e.EMSDK # Unset }

\* the first build finds a clean OUT_DIR; the user may have filled the cache
InitRebuild ==
  /\ env \in RebuildEnvs
  /\ fs \in { [FreshFs EXCEPT !.cacheBindings = cb] : cb \in {NoFile, "user"} }
  /\ fs0 = fs
  /\ pc = "main"
  /\ arg = ""
  /\ ret = ""
  /\ calls = <<>>
  /\ out = <<>>
  /\ panic = ""
  /\ hist = NoHistory

\* cargo runs the script again, perhaps in a changed environment, on the file
\* system the run that ended left behind
Rebuild ==
  /\ pc \in {"done", "aborted"}
  /\ env' \in RebuildEnvs
  /\ fs0' = fs
  /\ pc' = "main"
  /\ arg' = ""
  /\ ret' = ""
  /\ calls' = <<>>
  /\ out' = <<>>
  /\ panic' = ""
  /\ hist' = [ \* the fetch of this or of an earlier run succeeded
               fetched |-> hist.fetched
                             \/ Printed(Warning("Successfully downloaded WASM prebuilt")),
               \* this run, with the cache override set, generated bindings and completed
               generated |-> /\ pc = "done"
                             /\ is_ok(BINDINGS_CACHE_KEY)
                             /\ Invoked("bindgen") ]
  /\ UNCHANGED fs

NextRebuild ==
  \/ Next
  \/ Rebuild

SpecRebuild == InitRebuild /\ [][NextRebuild]_vars

\* the run has ended
Done == pc = "done"
Aborted == pc = "aborted"

TypeOK ==
  /\ env \in EnvDomain
  /\ pc \in {"main", "try_download_wasm_prebuilt", "curl", "wget", "tar", "build_wasm",
             "build_wasm_from_source", "wasm_utility", "build_from_source", "utility",
             "generate_bindings", "emit_std_cpp_link", "done", "aborted"}
  /\ (pc = "aborted") = (panic # "")
  /\ fs.dstUtility \/ fs.dstFiles = {}

----------------------------------------------------------------------------
(* Vocabulary of the properties *)

IsWasm == env.CARGO_CFG_TARGET_ARCH = "wasm32"
ForceWasmSource == is_ok("FASTNOISE2_BUILD_WASM_FROM_SOURCE")
DocsOnly == is_ok("DOCS_RS")

\* some download tool was invoked
Downloaded == Invoked("curl") \/ Invoked("wget")

\* some link-search or link-lib directive was printed
LinkPrinted ==
  \E i \in 1..Len(out) :
    out[i] \in {LinkStatic, LinkSearch(PrebuiltDir), LinkSearch(OUT_DIR \o "/lib"),
                LinkSearch(OUT_DIR \o "/lib64"), LinkSearch("/opt/lib"),
                "cargo:rustc-link-lib=dylib=stdc++", "cargo:rustc-link-lib=dylib=c++"}

\* the strategies that produced a native artifact in this run
StrategiesRun ==
  (IF Invoked("cmake") THEN {"source"} ELSE {})
    \cup (IF Printed(Warning("using precompiled library")) THEN {"precompiled"} ELSE {})
    \cup (IF Printed(Warning("Using prebuilt WASM binaries from GitHub releases"))
          THEN {"prebuilt"} ELSE {})

\* the prebuilt fetch got past the cache check and did not succeed
FetchFailed ==
  /\ Printed(Warning("Downloading WASM prebuilt"))
  /\ pc \notin {"curl", "wget", "tar"}
  /\ ~Printed(Warning("Successfully downloaded WASM prebuilt"))

----------------------------------------------------------------------------
(* C1: on a wasm32 target, whatever the rest of the environment and whichever
   WASM sub-path is taken, emit_std_cpp_link is never invoked: it is not
   entered, not pending as the continuation of main, and none of its output
   is printed. *)
C1_NoStdCppLinkOnWasm ==
  IsWasm =>
    /\ ~Invoked("emit_std_cpp_link")
    /\ pc # "emit_std_cpp_link"
    /\ ret # "emit_std_cpp_link"
    /\ ~Printed("cargo:rustc-link-lib=dylib=stdc++")
    /\ ~Printed("cargo:rustc-link-lib=dylib=c++")

\* a wasm32 run whose download failed and whose source build then completed
C1_Witness ==
  /\ IsWasm
  /\ Done
  /\ Invoked("curl")
  /\ Invoked("cmake")
  /\ Invoked("generate_bindings")

----------------------------------------------------------------------------
(* C2 as claimed: with FASTNOISE2_LIB_DIR set and the build-from-source feature
   off, cmake is never invoked, for every target architecture. *)
C2_Original ==
  (is_ok(LIB_DIR_KEY) /\ ~is_ok("CARGO_FEATURE_BUILD_FROM_SOURCE")) =>
    ~Invoked("cmake")

(* C2 amended: with FASTNOISE2_LIB_DIR set and the build-from-source feature
   off, on every target architecture other than wasm32 the Native Source
   Builder is never entered and cmake is never invoked. *)
C2_NoSourceBuildWithLibDir ==
  (is_ok(LIB_DIR_KEY) /\ ~is_ok("CARGO_FEATURE_BUILD_FROM_SOURCE") /\ ~IsWasm) =>
    /\ ~Invoked("cmake")
    /\ ~Invoked("build_from_source")
    /\ pc # "build_from_source"

\* a native run that linked the precompiled library and completed
C2_Witness ==
  /\ is_ok(LIB_DIR_KEY)
  /\ ~is_ok("CARGO_FEATURE_BUILD_FROM_SOURCE")
  /\ env.CARGO_CFG_TARGET_ARCH = "x86_64"
  /\ ~DocsOnly
  /\ Done
  /\ Printed(LinkSearch(env[LIB_DIR_KEY]))

----------------------------------------------------------------------------
(* C3: a run that starts with no OUT_DIR/bindings.rs and ends without a fatal
   abort has written OUT_DIR/bindings.rs, on every strategy path. *)
C3_BindingsWritten ==
  (fs0.outBindings = NoFile /\ Done) => fs.outBindings # NoFile

----------------------------------------------------------------------------
(* C4 as claimed: in every run that completes, exactly one strategy producing
   a native artifact has executed, documentation-only mode included. *)
C4_Original ==
  Done => Cardinality(StrategiesRun) = 1

(* C4 amended: in every run that completes outside documentation-only mode,
   exactly one strategy producing a native artifact has executed and the
   static library is linked exactly once; in documentation-only mode none
   has. *)
C4_ExactlyOneStrategy ==
  Done =>
    IF DocsOnly
    THEN StrategiesRun = {} /\ ~LinkPrinted
    ELSE /\ Cardinality(StrategiesRun) = 1
         /\ Cardinality({i \in 1..Len(out) : out[i] = LinkStatic}) = 1

\* a completed wasm32 run that tried the prebuilt download and built from source
C4_Witness ==
  /\ Done
  /\ ~DocsOnly
  /\ Invoked("tar")
  /\ StrategiesRun = {"source"}

----------------------------------------------------------------------------
(* C5: when FASTNOISE2_BINDINGS_DIR is set and holds bindings.rs as
   generate_bindings runs, bindgen is never invoked in the run, and once
   generate_bindings has copied a file, OUT_DIR/bindings.rs is a verbatim copy
   of that cache file or, on wasm32 with the vendored file present, of the
   vendored file. *)
C5_CacheHitSkipsBindgen ==
  (is_ok(BINDINGS_CACHE_KEY) /\ fs0.cacheBindings # NoFile) =>
    /\ ~Invoked("bindgen")
    /\ fs.cacheBindings = fs0.cacheBindings
    /\ (/\ Invoked("generate_bindings")
        /\ panic \notin {"Failed to copy vendored bindings",
                         "Failed to copy cached bindings"})
         => fs.outBindings =
              IF Printed(Warning("using vendored bindings for WASM"))
              THEN "vendored" ELSE fs0.cacheBindings

\* a completed run that started without bindings and copied them from the cache
C5_Witness ==
  /\ is_ok(BINDINGS_CACHE_KEY)
  /\ fs0.cacheBindings = "user"
  /\ fs0.outBindings = NoFile
  /\ Done
  /\ Printed(Warning("using cached bindings"))
  /\ fs.outBindings = "user"

----------------------------------------------------------------------------
(* C6: if OUT_DIR/wasm-prebuilt/libFastNoise.a exists when the run starts (and
   so when try_download_wasm_prebuilt runs), neither curl nor wget is invoked
   in the run, whether or not FASTNOISE2_BUILD_WASM_FROM_SOURCE is set. *)
C6_CacheHitNoDownload ==
  fs0.prebuiltLib => (~Downloaded /\ pc \notin {"curl", "wget"})

\* the fetcher ran with the library present and the run completed
C6_Witness ==
  /\ fs0.prebuiltLib
  /\ Invoked("try_download_wasm_prebuilt")
  /\ Printed(Warning("Using cached WASM prebuilt"))
  /\ Done

----------------------------------------------------------------------------
(* C7 as claimed: on the WASM path the cache check comes first: if the library
   file exists when the fetcher runs, the fetcher returns the cached artifact
   and cmake is not invoked, whatever the force-WASM-source override. *)
C7_Original ==
  (fs0.prebuiltLib /\ Invoked("try_download_wasm_prebuilt")) =>
    /\ Printed(Warning("Using cached WASM prebuilt"))
    /\ ~Invoked("cmake")
    /\ pc # "build_wasm_from_source"

(* C7 amended: on the WASM path FASTNOISE2_BUILD_WASM_FROM_SOURCE is consulted
   first.  When it is set the fetcher returns unavailable without a cache
   check, even if the library file exists, and control goes to the source
   build.  When it is not set the cache check comes before any download: if
   the library file exists the fetcher returns the cached artifact at once and
   neither a download tool, tar nor cmake is invoked. *)
C7_OverrideThenCacheCheck ==
  Invoked("try_download_wasm_prebuilt") =>
    /\ ForceWasmSource =>
         /\ ~Printed(Warning("Using cached WASM prebuilt"))
         /\ ~Printed(Warning("Using prebuilt WASM binaries from GitHub releases"))
         /\ ~Downloaded
         /\ pc = "build_wasm_from_source" \/ Invoked("build_wasm_from_source")
    /\ (~ForceWasmSource /\ fs0.prebuiltLib) =>
         /\ Printed(Warning("Using cached WASM prebuilt"))
         /\ ~Downloaded
         /\ ~Invoked("tar")
         /\ ~Invoked("cmake")
         /\ pc \in {"build_wasm", "done", "aborted"}

\* the override was set while the library file existed, and the source build ran
C7_Witness ==
  /\ fs0.prebuiltLib
  /\ ForceWasmSource
  /\ Invoked("try_download_wasm_prebuilt")
  /\ Invoked("cmake")
  /\ Done

----------------------------------------------------------------------------
(* C8: on a wasm32 target, a prebuilt fetch that fails (directory creation,
   both download tools, extraction, or the library missing after extraction)
   never aborts the run at that point: control is at the WASM source build or
   the source build has been entered. *)
C8_FetchFailureFallsBack ==
  FetchFailed =>
    /\ pc = "build_wasm_from_source" \/ Invoked("build_wasm_from_source")
    /\ Printed(Warning("Prebuilt not available"))
    /\ panic \in {"", "EMSDK environment variable required for WASM builds",
                  "cmake build failed", "Failed to create Utility dir",
                  "Failed to copy header", "Failed to copy vendored bindings",
                  "Failed to copy cached bindings", "Unable to generate bindings",
                  "Couldn't write bindings!"}

\* extraction failed, the source build ran and the run completed
C8_Witness ==
  /\ IsWasm
  /\ Printed(Warning("Failed to extract WASM prebuilt tarball"))
  /\ Invoked("cmake")
  /\ Done

----------------------------------------------------------------------------
(* C9: whenever build_wasm_from_source is entered with EMSDK absent, the run
   is aborted with the message naming EMSDK, cmake has not been invoked and no
   link directive has been printed. *)
C9_MissingEmsdkIsFatal ==
  (Invoked("build_wasm_from_source") /\ ~is_ok("EMSDK")) =>
    /\ Aborted
    /\ panic = "EMSDK environment variable required for WASM builds"
    /\ ~Invoked("cmake")
    /\ ~LinkPrinted

\* both download tools failed, then the source build aborted on the missing EMSDK
C9_Witness ==
  /\ ~is_ok("EMSDK")
  /\ Invoked("curl")
  /\ Invoked("wget")
  /\ Invoked("build_wasm_from_source")
  /\ Aborted

----------------------------------------------------------------------------
\* what a step of the header repair does to the install tree
RepairStepIsIdempotent ==
  pc \in {"utility", "wasm_utility"} =>
    /\ fs.dstUtility => fs' = fs
    /\ (pc' = "generate_bindings" \/ fs'.dstUtility) => Repaired(fs', source_path) = fs'
    /\ \A e \in fs.dstFiles : e \in fs'.dstFiles

(* C10: the header repair never overwrites and is idempotent: a repair step
   taken while the destination Utility directory exists changes no file and
   no repair step removes or replaces a file of it, and after a repair step
   that returns (or that aborts with the directory created), running the
   repair again on the same source and install trees leaves the file system
   as it is. *)
C10_RepairIdempotent == [][RepairStepIsIdempotent]_vars

\* a repair that copied the headers of the source tree into a new directory
C10_Witness ==
  /\ pc = "generate_bindings"
  /\ Invoked("cmake")
  /\ ~fs0.dstUtility
  /\ fs.dstUtility
  /\ fs.dstFiles = {<<h, source_path>> : h \in Headers}

----------------------------------------------------------------------------
\* the lines only emit_std_cpp_link prints
LinkStdCpp == "cargo:rustc-link-lib=dylib=stdc++"
LinkCpp == "cargo:rustc-link-lib=dylib=c++"
UnknownTarget == Warning("Unknown target for C++ stdlib linking")

\* what the emitter printed in this run
EmitterOutput == {l \in Range(out) : l \in {LinkStdCpp, LinkCpp, UnknownTarget}}

\* the table of the link directives, with the operating systems of its c++ row
LinkTable(cppSystems, os, abi) ==
  IF os = "linux" \/ (os = "windows" /\ abi = "gnu") THEN {LinkStdCpp}
  ELSE IF os \in cppSystems THEN {LinkCpp}
  ELSE IF os = "windows" /\ abi = "msvc" THEN {}
  ELSE {UnknownTarget}

\* C11 as stated: the c++ row holds macOS and every BSD of the bounded set
C11_Original ==
  Done =>
    EmitterOutput = LinkTable({"macos", "freebsd", "openbsd", "netbsd"},
                              env.CARGO_CFG_TARGET_OS, env.CARGO_CFG_TARGET_ENV)

(* C11: what emit_std_cpp_link prints is a function of (operating system, ABI)
   alone, whatever the rest of the environment and the file system: Linux with
   any ABI and Windows with the GNU ABI print the stdc++ entry; macOS and
   FreeBSD print the c++ entry; Windows with MSVC prints no entry and no
   warning; every other pair, OpenBSD and NetBSD included, prints the
   unknown-target warning and no entry. *)
C11_LinkTable ==
  Done =>
    EmitterOutput = LinkTable({"macos", "freebsd"},
                              env.CARGO_CFG_TARGET_OS, env.CARGO_CFG_TARGET_ENV)

\* a completed OpenBSD build: the emitter ran and printed only the warning
C11_Witness ==
  /\ Done
  /\ Invoked("emit_std_cpp_link")
  /\ env.CARGO_CFG_TARGET_OS = "openbsd"
  /\ EmitterOutput = {UnknownTarget}

----------------------------------------------------------------------------
\* one of the three target values cargo supplies is missing
TargetValueMissing ==
  \/ env.CARGO_CFG_TARGET_ARCH = Unset
  \/ env.CARGO_CFG_TARGET_OS = Unset
  \/ env.CARGO_CFG_TARGET_ENV = Unset

----------------------------------------------------------------------------
\* the library search paths printed so far
SearchPaths ==
  {l \in Range(out) :
     l \in {LinkSearch(PrebuiltDir), LinkSearch(OUT_DIR \o "/lib"),
            LinkSearch(OUT_DIR \o "/lib64"), LinkSearch("/opt/lib")}}

\* none of the optional variables is set
NoOverrides ==
  /\ ~DocsOnly
  /\ ~ForceWasmSource
  /\ env.CARGO_FEATURE_BUILD_FROM_SOURCE = Unset
  /\ env.FASTNOISE2_LIB_DIR = Unset
  /\ env.FASTNOISE2_SOURCE_DIR = Unset
  /\ env.FASTNOISE2_BINDINGS_DIR = Unset

\* download, extraction and the check for the library all succeeded in this run
FetchSucceeded == Printed(Warning("Successfully downloaded WASM prebuilt"))

(* C13: a wasm32 run with no overrides whose download, extraction and
   verification succeeded and that completed has invoked neither cmake nor
   bindgen, has printed the prebuilt directory as its only library search
   path, and has left at OUT_DIR/bindings.rs a copy of the bindings file of
   the bundle. *)
C13_PrebuiltSuccess ==
  (IsWasm /\ NoOverrides /\ FetchSucceeded /\ Done) =>
    /\ ~Invoked("cmake")
    /\ ~Invoked("bindgen")
    /\ SearchPaths = {LinkSearch(PrebuiltDir)}
    /\ fs.outBindings = "bundle"

----------------------------------------------------------------------------
\* a build (not a documentation-only run) for a target other than wasm32
NativeBuild ==
  /\ ~DocsOnly
  /\ env.CARGO_CFG_TARGET_ARCH \notin {Unset, "wasm32"}

\* a native build told where the precompiled library is, and not forced to build it
PrecompiledBuild ==
  /\ NativeBuild
  /\ env.FASTNOISE2_LIB_DIR # Unset
  /\ env.CARGO_FEATURE_BUILD_FROM_SOURCE = Unset

\* the header under the vendored source tree of the crate
DefaultHeader == CARGO_MANIFEST_DIR \o "/build/FastNoise2/include/FastNoise/FastNoise_C.h"

\* the cache override is set and the cache held a file when the run started
CacheHeldFile == env.FASTNOISE2_BINDINGS_DIR # Unset /\ fs0.cacheBindings # NoFile

(* C14: in a build (outside documentation-only mode) for a target other than
   wasm32 with FASTNOISE2_LIB_DIR = D and the force-source feature off, once
   main has dispatched, D is the only library search path printed, the static
   library FastNoise is linked and cmake is never invoked; when the bindings
   cache misses, bindgen is invoked once generate_bindings has been entered,
   always on the header under the crate's vendored source tree, whatever
   FASTNOISE2_SOURCE_DIR says, and a completed run has written the generated
   bindings. *)
C14_PrecompiledLibrary ==
  (PrecompiledBuild /\ pc # "main") =>
    /\ SearchPaths = {LinkSearch(env.FASTNOISE2_LIB_DIR)}
    /\ Printed(LinkStatic)
    /\ ~Invoked("cmake")
    /\ \A i \in 1..Len(calls) :
         /\ calls[i].fn = "bindgen" => calls[i].args = DefaultHeader
         /\ calls[i].fn = "generate_bindings" => calls[i].args = default_source_path
    /\ ~CacheHeldFile =>
         /\ Invoked("generate_bindings") => Invoked("bindgen")
         /\ Done => fs.outBindings = "bindgen"

\* a completed build with the source override also set: the bindings were
\* generated from the vendored header
C14_Witness ==
  /\ PrecompiledBuild
  /\ env.FASTNOISE2_SOURCE_DIR # Unset
  /\ ~CacheHeldFile
  /\ Done
  /\ \E i \in 1..Len(calls) : calls[i] = Call("bindgen", DefaultHeader)
  /\ fs.outBindings = "bindgen"
  /\ Printed(LinkSearch("/opt/lib"))

----------------------------------------------------------------------------
\* the number of invocations of a tool so far
Invocations(log, name) == Cardinality({i \in 1..Len(log) : log[i].fn = name})

\* the step invokes the tool: it appends the invocation to calls
Invokes(name) == Len(calls') = Len(calls) + 1 /\ calls'[Len(calls')].fn = name

\* what a step may do with the download tools and the extraction
DownloadStepInOrder ==
  /\ Invocations(calls', "curl") <= 1
  /\ Invocations(calls', "wget") <= 1
  /\ Invocations(calls', "tar") <= 1
  \* wget is invoked only after a curl invocation that failed: the step that
  \* hands over to wget is the curl invocation and it downloaded no archive
  /\ Invokes("wget") => pc = "wget" /\ Invoked("curl") /\ ~Invoked("tar")
  /\ (pc' = "wget" /\ pc # "wget") => Invokes("curl") /\ fs' = fs
  \* extraction is invoked only after curl or wget exited with code zero: the
  \* step that hands over to tar is a download that wrote the archive
  /\ Invokes("tar") => pc = "tar" /\ Downloaded
  /\ (pc' = "tar" /\ pc # "tar") =>
       /\ Invokes("curl") \/ Invokes("wget")
       /\ fs'.tarball /\ ~fs.tarball

(* C15: within one run the download tools are tried in the order curl, wget:
   wget is invoked only by the step that follows a failed curl invocation,
   curl, wget and tar are each invoked at most once, and tar is invoked only
   by the step that follows a curl or wget invocation that exited with code
   zero and wrote the archive. *)
C15_DownloadOrder == [][DownloadStepInOrder]_vars

\* curl failed, wget succeeded, and the archive was extracted
C15_Witness ==
  /\ \E i, j, k \in 1..Len(calls) :
       /\ i < j /\ j < k
       /\ calls[i].fn = "curl" /\ calls[j].fn = "wget" /\ calls[k].fn = "tar"
  /\ fs.tarball
  /\ ~fs0.tarball

----------------------------------------------------------------------------
\* the functions and tools that build, fetch or link a native artifact
NativeWork ==
  {"build_wasm", "try_download_wasm_prebuilt", "curl", "wget", "tar",
   "build_wasm_from_source", "build_from_source", "cmake", "emit_std_cpp_link"}

(* C16: when DOCS_RS is set, on every target architecture (wasm32 and a
   missing architecture included) and for every value of the other variables,
   main goes straight to generate_bindings and the run ends when it returns:
   no builder, no fetch, no download tool, no extraction, no cmake and no
   emit_std_cpp_link is ever entered, and no link-search or link-lib line is
   printed; the only lines printed are warnings. *)
C16_DocsOnlyShortCircuit ==
  DocsOnly =>
    /\ pc \in {"main", "generate_bindings", "done", "aborted"}
    /\ pc # "main" => ret = "done" /\ arg = default_source_path
    /\ \A i \in 1..Len(calls) : calls[i].fn \in {"generate_bindings", "bindgen"}
    /\ \A n \in NativeWork : ~Invoked(n)
    /\ ~LinkPrinted
    /\ SearchPaths = {}
    /\ \A i \in 1..Len(out) : out[i] \in
         {Warning("docs.rs compilation detected"),
          Warning("using vendored bindings for WASM"),
          Warning("vendored bindings not found"),
          Warning("using cached bindings"),
          Warning("generating Rust bindings for FastNoise2"),
          Warning("bindings generated successfully"),
          Warning("bindings cached")}
    /\ Done => Invoked("generate_bindings")

\* a completed documentation-only run for wasm32 with every override set
C16_Witness ==
  /\ DocsOnly
  /\ IsWasm
  /\ ForceWasmSource
  /\ env.FASTNOISE2_LIB_DIR # Unset
  /\ env.CARGO_FEATURE_BUILD_FROM_SOURCE # Unset
  /\ Done
  /\ calls[1] = Call("generate_bindings", default_source_path)

----------------------------------------------------------------------------
\* a native build with the build-from-source feature on
ForcedSourceBuild ==
  /\ NativeBuild
  /\ env.CARGO_FEATURE_BUILD_FROM_SOURCE # Unset

\* the position of the first entry of a function in calls, 0 if there is none
FirstCall(name) ==
  IF Invoked(name) THEN CHOOSE i \in 1..Len(calls) :
                          /\ calls[i].fn = name
                          /\ \A j \in 1..(i - 1) : calls[j].fn # name
  ELSE 0

(* C17: in a build (outside documentation-only mode) for a target other than
   wasm32 with the build-from-source feature on, whether or not
   FASTNOISE2_LIB_DIR is set: main dispatches to build_from_source, the
   directory of the override is never printed as a library search path and the
   precompiled branch is never taken, and emit_std_cpp_link is entered only
   after build_from_source has returned, that is after its last step
   generate_bindings; a run that completes has entered it. *)
C17_ForcedSourceBuild ==
  ForcedSourceBuild =>
    /\ pc # "main" => pc = "build_from_source" \/ FirstCall("build_from_source") = 1
    /\ SearchPaths \subseteq {LinkSearch(OUT_DIR \o "/lib"), LinkSearch(OUT_DIR \o "/lib64")}
    /\ ~Printed(Warning("using precompiled library"))
    /\ pc \in {"build_from_source", "utility", "generate_bindings"} =>
         ret = "emit_std_cpp_link" /\ ~Invoked("emit_std_cpp_link")
    /\ (pc = "emit_std_cpp_link" \/ Invoked("emit_std_cpp_link")) =>
         /\ Invoked("cmake")
         /\ Invoked("generate_bindings")
         /\ FirstCall("build_from_source") < FirstCall("generate_bindings")
    /\ Invoked("emit_std_cpp_link") =>
         /\ FirstCall("generate_bindings") < FirstCall("emit_std_cpp_link")
         /\ calls[Len(calls)].fn = "emit_std_cpp_link"
    /\ Done => Invoked("emit_std_cpp_link")

\* a completed forced source build with the library directory also set
C17_Witness ==
  /\ ForcedSourceBuild
  /\ env.FASTNOISE2_LIB_DIR # Unset
  /\ Done
  /\ Invoked("cmake")
  /\ Invoked("emit_std_cpp_link")
  /\ Printed("cargo:rustc-link-lib=dylib=stdc++")

----------------------------------------------------------------------------
\* the bindings cache override is set
CacheOverride == env.FASTNOISE2_BINDINGS_DIR # Unset

\* this run, with the cache override set, generated bindings and completed
GeneratedAndCompleted == Done /\ CacheOverride /\ Invoked("bindgen")

----------------------------------------------------------------------------
\* the line each provenance prints when it is chosen
UsedVendored == Printed(Warning("using vendored bindings for WASM"))
UsedCache == Printed(Warning("using cached bindings"))
UsedGenerator == Printed(Warning("generating Rust bindings for FastNoise2"))

ProvenancesUsed ==
  (IF UsedVendored THEN {"vendored"} ELSE {})
    \cup (IF UsedCache THEN {"cache"} ELSE {})
    \cup (IF UsedGenerator THEN {"generator"} ELSE {})

\* generate_bindings has returned to main
BindingsReturned ==
  Invoked("generate_bindings") /\ pc \in {"emit_std_cpp_link", "done"}

(* C19: a run enters generate_bindings at most once and then uses exactly one
   provenance, in the order vendored file (wasm32 only, when it exists), cache
   file, generator.  When the vendored file is used the cache file is not
   copied and bindgen is not invoked, even if the cache override is set and
   holds a file; the cache file is used only when no vendored file was, the
   override is set and the file exists, and then bindgen is not invoked;
   bindgen is invoked only when both miss.  On a target other than wasm32 the
   vendored file is neither looked for nor used.  When generate_bindings has
   returned, OUT_DIR/bindings.rs holds the file of the provenance used. *)
C19_ProvenancePriority ==
  /\ Invocations(calls, "generate_bindings") <= 1
  /\ Invocations(calls, "bindgen") <= 1
  /\ Cardinality(ProvenancesUsed) = (IF Invoked("generate_bindings") THEN 1 ELSE 0)
  /\ UsedVendored => IsWasm /\ ~Invoked("bindgen")
  /\ (Invoked("generate_bindings") /\ ~IsWasm) =>
       ~Printed(Warning("vendored bindings not found"))
  /\ (Invoked("generate_bindings") /\ IsWasm) =>
       UsedVendored # Printed(Warning("vendored bindings not found"))
  /\ UsedCache => CacheHeldFile /\ ~Invoked("bindgen")
  /\ (Invoked("generate_bindings") /\ ~UsedVendored /\ CacheHeldFile) => UsedCache
  /\ UsedGenerator <=> Invoked("bindgen")
  /\ BindingsReturned =>
       fs.outBindings = (IF UsedVendored THEN "vendored"
                         ELSE IF UsedCache THEN fs0.cacheBindings
                         ELSE "bindgen")

\* a completed wasm32 run that used the vendored file although the cache held one
C19_Witness ==
  /\ IsWasm
  /\ CacheHeldFile
  /\ UsedVendored
  /\ Done
  /\ fs.outBindings = "vendored"
  /\ fs.cacheBindings = fs0.cacheBindings

----------------------------------------------------------------------------
\* a wasm32 build (not a documentation-only run) that may use the prebuilt library
PrebuiltAllowed == IsWasm /\ ~DocsOnly /\ ~ForceWasmSource

(* C20: the prebuilt library persists across builds in one OUT_DIR: once the
   fetch of some build has succeeded the library file stays in place, and
   every later wasm32 build without the force-WASM-source flag takes the
   cached copy: it invokes neither curl nor wget nor tar nor cmake, never
   enters the source build, reports the cache hit as soon as the fetcher has
   run, and from then on has printed the prebuilt directory as its only
   library search path, with the static library. *)
C20_PrebuiltCachePersists ==
  hist.fetched =>
    /\ fs.prebuiltLib
    /\ PrebuiltAllowed =>
         /\ ~Downloaded
         /\ ~Invoked("tar")
         /\ ~Invoked("cmake")
         /\ ~Invoked("build_wasm_from_source")
         /\ ~Printed(Warning("Downloading WASM prebuilt"))
         /\ Invoked("try_download_wasm_prebuilt") =>
              Printed(Warning("Using cached WASM prebuilt"))
         /\ pc \notin {"main", "try_download_wasm_prebuilt"} =>
              /\ Invoked("try_download_wasm_prebuilt")
              /\ pc # "build_wasm" =>
                   /\ SearchPaths = {LinkSearch(PrebuiltDir)}
                   /\ Printed(LinkStatic)

\* a completed wasm32 build after one whose fetch succeeded
C20_Witness ==
  /\ hist.fetched
  /\ PrebuiltAllowed
  /\ Done
  /\ Printed(Warning("Using cached WASM prebuilt"))
  /\ SearchPaths = {LinkSearch(PrebuiltDir)}
  /\ calls = <<Call("build_wasm", ""), Call("try_download_wasm_prebuilt", "")>>

----------------------------------------------------------------------------
\* the fetcher returned the cached prebuilt directory in this run
CacheHitReported == Printed(Warning("Using cached WASM prebuilt"))

(* C21: over the builds that share one OUT_DIR, starting from a clean one, a
   build reports a prebuilt cache hit, and goes on to link the prebuilt
   library, only if the fetch of some earlier build succeeded at download,
   extraction and verification; a fetch that returned unavailable never makes
   a later build link the prebuilt library. *)
C21_CacheHitOnlyAfterFetch ==
  /\ CacheHitReported => hist.fetched
  /\ (Printed(LinkSearch(PrebuiltDir)) /\ ~FetchSucceeded) => hist.fetched

====
